---------------------------- MODULE Spec2Model ----------------------------
(***************************************************************************)
(* A model of src/app.py, the Streamlit text summarizer: the sentence      *)
(* segmenter, the phrase-substitution "paraphraser", the positional        *)
(* (basic) selector, the Hugging Face backed selector with its fallback,   *)
(* and the generate handler with its statistics.                           *)
(*                                                                         *)
(* Texts are TLA+ strings; Len, SubSeq and \o act on them character by     *)
(* character, as Python's len, slicing and + do.                           *)
(***************************************************************************)
EXTENDS Integers, Sequences, FiniteSets, TLC

VARIABLES
    \* One run of the page (Spec).
    pc,               \* "input": no summary asked for yet; "done": the run
                      \* that followed a press of the button has finished
    content,          \* the text to summarize ("" while there is none)
    content_none,     \* whether content is None (content is "" then)
    input_shown,      \* what the input column shows under the input:
                      \* "nothing", "error" (with source_info) or "success"
    source_info,      \* the label of its source
    mode,             \* "Simple Mode" or "Advanced Mode"
    target_sentences, \* the parameters handed to create_smart_summary
    target_words,
    summary_priority, \* "sentences" or "words"
    use_ai,           \* the checkbox
    response,         \* what the inference API answered (NotAsked if not called)
    ai_result,        \* what create_ai_summary returned (<<>> if not called)
    path,             \* "ai" or "basic": whose result create_smart_summary returned
    summary,          \* summary, final_sentences, final_words: its result
    final_sentences,
    final_words,
    display,          \* what the output column shows: "nothing", "warning",
                      \* "too_short", "error" or "summary"
    stats,            \* the statistics shown with a summary
    \* clean_and_split_sentences on its own (SpecSeg).
    segIn,      \* the text handed to clean_and_split_sentences
    segOut,     \* the list it returned
    segPc,      \* "in" before the call, "out" after it
    \* smart_paraphrase on its own (SpecPara).
    paraIn,     \* the text handed to smart_paraphrase
    paraOnce,   \* smart_paraphrase(paraIn)
    paraTwice,  \* smart_paraphrase(smart_paraphrase(paraIn))
    paraPc,     \* "in", "once" or "twice": how often it has been applied
    \* The statistics lines on their own (SpecStats).
    statFinal,       \* final_words
    statOriginal,    \* original_words
    statCompression, \* compression, in tenths of a percent
    statPc,          \* "in" before the computation, "out" after it
    \* create_basic_summary on its own (SpecSelect).
    selText,    \* the text handed to create_basic_summary
    selTarget,  \* target_sentences
    selOut,     \* what it returned (<<>> before the call)
    selPc       \* "in" before the call, "out" after it

runVars == <<pc, content, content_none, input_shown, source_info, mode, target_sentences, target_words,
             summary_priority, use_ai, response, ai_result, path, summary,
             final_sentences, final_words, display, stats>>
segVars == <<segIn, segOut, segPc>>
paraVars == <<paraIn, paraOnce, paraTwice, paraPc>>
statVars == <<statFinal, statOriginal, statCompression, statPc>>
selVars == <<selText, selTarget, selOut, selPc>>
vars == <<runVars, segVars, paraVars, statVars, selVars>>

---------------------------------------------------------------------------
(* Bounds of the model. *)

\* Number of pieces a segmenter input is put together from.
MaxPieces == 5

\* Number of phrases a paraphraser input is put together from.
MaxPhrases == 3

\* Number of sentences of the longest pasted text.
MaxSentences == 7

\* Number of sentences of the longest text handed to create_basic_summary
\* on its own, and the largest target_sentences tried with it.
MaxListed == 12
MaxTarget == 8

\* Largest position of the "Target sentences" slider that is tried.
MaxCustomSentences == 5

\* Number of steps above its minimum the "Target words" slider is moved.
MaxWordSteps == 1

\* Largest word count the statistics lines are applied to.
MaxWords == 100

---------------------------------------------------------------------------
(* Characters and string helpers (Python str methods). *)

Ch(s, i) == SubSeq(s, i, i)

\* What \s and str.strip() treat as whitespace (the ASCII part).
Whitespace == {" ", "\t", "\n", "\r", "\f"}

\* The sentence-final marks of the split pattern and of endswith(('.', '!', '?')).
Terminals == {".", "!", "?"}

\* [A-Z]
Upper == {"A", "B", "C", "D", "E", "F", "G", "H", "I", "J", "K", "L", "M",
          "N", "O", "P", "Q", "R", "S", "T", "U", "V", "W", "X", "Y", "Z"}

\* The positions lo..hi in increasing order.
Positions(lo, hi) == [k \in 1..(hi - lo + 1) |-> lo + k - 1]

\* str.startswith / str.endswith
startswith(s, p) == Len(s) >= Len(p) /\ SubSeq(s, 1, Len(p)) = p
endswith(s, p) == Len(s) >= Len(p) /\ SubSeq(s, Len(s) - Len(p) + 1, Len(s)) = p

\* First index >= i of s holding a non-whitespace character, Len(s)+1 if none.
RECURSIVE SkipSpace(_, _)
SkipSpace(s, i) ==
    IF i > Len(s) \/ Ch(s, i) \notin Whitespace THEN i ELSE SkipSpace(s, i + 1)

\* Last index <= i of s holding a non-whitespace character, 0 if none.
RECURSIVE SkipSpaceBack(_, _)
SkipSpaceBack(s, i) ==
    IF i < 1 \/ Ch(s, i) \notin Whitespace THEN i ELSE SkipSpaceBack(s, i - 1)

\* str.strip()
strip(s) == SubSeq(s, SkipSpace(s, 1), SkipSpaceBack(s, Len(s)))

\* The concatenation of piece(lo), ..., piece(hi), by halves.
RECURSIVE ConcatRange(_, _, _)
ConcatRange(piece(_), lo, hi) ==
    IF lo > hi THEN ""
    ELSE IF lo = hi THEN piece(lo)
    ELSE LET mid == (lo + hi) \div 2
         IN  ConcatRange(piece, lo, mid) \o ConcatRange(piece, mid + 1, hi)

\* re.sub(r'\s+', ' ', s): every whitespace run becomes one space, that is,
\* its first character becomes a space and the others go.
CollapseWhitespace(s) ==
    LET piece(i) ==
            IF Ch(s, i) \notin Whitespace THEN Ch(s, i)
            ELSE IF i = 1 \/ Ch(s, i - 1) \notin Whitespace THEN " "
            ELSE ""
    IN  ConcatRange(piece, 1, Len(s))

\* str.split(): the whitespace-separated tokens; len(s.split()) counts them.
WordStarts(s) ==
    {i \in 1..Len(s) : /\ Ch(s, i) \notin Whitespace
                       /\ (i = 1 \/ Ch(s, i - 1) \in Whitespace)}

WordCount(s) == Cardinality(WordStarts(s))

\* ' '.join(list)
Join(list) ==
    LET piece(i) == IF i = 1 THEN list[i] ELSE " " \o list[i]
    IN  ConcatRange(piece, 1, Len(list))

---------------------------------------------------------------------------
(* clean_and_split_sentences *)

\* Shortest fragment that is kept.
MinSentenceLen == 10

\* A match of (?<=[.!?])\s+(?=[A-Z]) starts at i: a whitespace run that
\* follows a terminal mark and is followed by a capital letter.
SplitMatchAt(s, i) ==
    /\ i > 1
    /\ Ch(s, i) \in Whitespace
    /\ Ch(s, i - 1) \in Terminals
    /\ LET j == SkipSpace(s, i) IN j <= Len(s) /\ Ch(s, j) \in Upper

\* re.split(r'(?<=[.!?])\s+(?=[A-Z])', s): the pieces between the matches.
ReSplit(s) ==
    LET isCut(i) == SplitMatchAt(s, i)
        cuts == SelectSeq(Positions(1, Len(s)), isCut)
        n == Len(cuts)
        first(k) == IF k = 1 THEN 1 ELSE SkipSpace(s, cuts[k - 1])
        last(k) == IF k = n + 1 THEN Len(s) ELSE cuts[k] - 1
    IN  [k \in 1..(n + 1) |-> SubSeq(s, first(k), last(k))]

\* Variant for testing the properties: only fragments longer than 10 characters are kept.
KeepFragmentLonger(f) == Len(f) > MinSentenceLen /\ ~endswith(f, "..")

\* if len(sentence) >= 10 and not sentence.endswith('..')
KeepFragment(f) == Len(f) >= MinSentenceLen /\ ~endswith(f, "..")

\* Variant for testing the properties: a period is appended to every retained fragment.
PunctuateAlways(f) == f \o "."

\* if not sentence.endswith(('.', '!', '?')): sentence += '.'
Punctuate(f) ==
    IF \E t \in Terminals : endswith(f, t) THEN f ELSE f \o "."

StripAll(list) == [k \in 1..Len(list) |-> strip(list[k])]

\* The raw_sentences of the call, each stripped as the loop strips it.
RawSentences(text) == StripAll(ReSplit(CollapseWhitespace(strip(text))))

clean_and_split_sentences(text) ==
    LET kept == SelectSeq(RawSentences(text), KeepFragment)
    IN  [k \in 1..Len(kept) |-> Punctuate(kept[k])]

---------------------------------------------------------------------------
(* smart_paraphrase *)

\* The replacements dict, in insertion order (the order .items() yields).
replacements ==
    << <<"reportedly", "allegedly">>, <<"infiltrated", "breached">>,
       <<"obtained", "secured">>, <<"suspended", "halted">>,
       <<"authorities", "officials">>, <<"considering", "contemplating">>,
       <<"individuals", "people">>, <<"conducted", "carried out">>,
       <<"mentioned", "stated">>, <<"operational", "functional">>,
       <<"approximately", "about">>, <<"subsequently", "later">>,
       <<"smashed", "hit">>, <<"crushing", "defeating">>,
       <<"sealed", "secured">>, <<"unassailable", "commanding">>,
       <<"deliveries", "balls">>, <<"holed out", "was caught">>,
       <<"removed cheaply", "dismissed for low scores">>,
       <<"server", "system">>,
       <<"technical advice", "technical assistance">>,
       <<"restart", "restore">>,
       <<"come to a standstill", "been suspended">>,
       <<"no response has been received", "they have not received a response">>,
       <<"have not been able to", "cannot">>,
       <<"As a result", "Consequently">>, <<"Even after", "Despite">>,
       <<"Rajdhani Unnayan Kartripakkha", "Rajuk">>,
       <<"Electronic Construction Permitting System", "ECPS">>,
       <<"Bangladesh Computer Council", "BCC">>,
       <<"West Indies", "Windies">>,
       <<"From the following day", "The next day">>,
       <<"all types of services", "all services">>,
       <<"are currently being provided", "are available">>,
       <<"linked to the incident", "connected to the breach">> >>

\* str.find(old, i): the first index >= i where old occurs in s, 0 if none.
FindFrom(s, old, i) ==
    LET isAt(j) == Ch(s, j) = Ch(old, 1) /\ SubSeq(s, j, j + Len(old) - 1) = old
        found == SelectSeq(Positions(i, Len(s) - Len(old) + 1), isAt)
    IN  IF found = <<>> THEN 0 ELSE found[1]

\* str.replace(old, new): every occurrence, leftmost first, none overlapping.
RECURSIVE ReplaceFrom(_, _, _, _)
ReplaceFrom(s, old, new, i) ==
    LET f == FindFrom(s, old, i)
    IN  IF f = 0 THEN SubSeq(s, i, Len(s))
        ELSE SubSeq(s, i, f - 1) \o new \o ReplaceFrom(s, old, new, f + Len(old))

\* Variant for testing the properties: str.replace replacing the first occurrence only.
ReplaceFirst(s, old, new) ==
    LET f == FindFrom(s, old, 1)
    IN  IF f = 0 THEN s
        ELSE SubSeq(s, 1, f - 1) \o new \o SubSeq(s, f + Len(old), Len(s))

Replace(s, old, new) == ReplaceFrom(s, old, new, 1)

\* for old, new in replacements.items(): result = result.replace(old, new)
RECURSIVE ApplyFrom(_, _)
ApplyFrom(result, k) ==
    IF k > Len(replacements) THEN result
    ELSE LET old == replacements[k][1]
             new == replacements[k][2]
         IN  IF FindFrom(result, old, 1) = 0
             THEN ApplyFrom(result, k + 1)
             ELSE ApplyFrom(Replace(result, old, new), k + 1)

smart_paraphrase(text) == ApplyFrom(text, 1)

---------------------------------------------------------------------------
(* The texts of the model *)

Pool ==
    <<"Authorities reportedly obtained the server logs late on Monday evening.",
      "Banks suspended all types of services for two days!",
      "Can the council restart its systems before the deadline passes?",
      "David smashed a century against the West Indies on Friday.",
      "Engineers conducted tests and found no new faults anywhere.",
      "Further work has come to a standstill since last week.",
      "Giving technical advice took the team approximately three more hours.",
      "However no response has been received from the vendor yet.">>

\* The first k sentences of the pool as one text.
Body(k) == Join(SubSeq(Pool, 1, k))

BodyCounts == {k \in 1..Len(Pool) : k <= MaxSentences}

Contents ==
    {Body(k) : k \in BodyCounts}
    \cup {"Too short to use.",
          "   Padded but too short.               ",
          "this note trails off without a proper ending..",
          "Error logs were reviewed by the audit team. Nothing else was found at all.",
          "Hi. This is a proper sentence that is long enough.",
          "  First sentence here.\n\nSecond one follows!   third part stays attached  "}

\* What can be typed into the text area.
TextInputs == Contents \cup {"", "   "}

\* The summary_text of a well-formed answer of the backend.
Drafts ==
    {Body(1), Body(3), Body(6),
     "AI Error rates fell sharply this year.",
     "ok"}

---------------------------------------------------------------------------
(* extract_url_content_basic, extract_url_content, process_uploaded_file *)

\* The marks that open a label, written in ASCII: the cross of a failure
\* label, and the words every source label holds.
FailMark == "(x) "
SourceMark == "Source: "

\* What an acquisition returns: the text, or None (none = TRUE, text "")
\* and the label that goes with it.
Acquired(text, label) == [none |-> FALSE, text |-> text, label |-> label]
AcquiredNone(label) == [none |-> TRUE, text |-> "", label |-> label]

LowerMap ==
    [c \in Upper |->
        CASE c = "A" -> "a" [] c = "B" -> "b" [] c = "C" -> "c" [] c = "D" -> "d"
          [] c = "E" -> "e" [] c = "F" -> "f" [] c = "G" -> "g" [] c = "H" -> "h"
          [] c = "I" -> "i" [] c = "J" -> "j" [] c = "K" -> "k" [] c = "L" -> "l"
          [] c = "M" -> "m" [] c = "N" -> "n" [] c = "O" -> "o" [] c = "P" -> "p"
          [] c = "Q" -> "q" [] c = "R" -> "r" [] c = "S" -> "s" [] c = "T" -> "t"
          [] c = "U" -> "u" [] c = "V" -> "v" [] c = "W" -> "w" [] c = "X" -> "x"
          [] c = "Y" -> "y" [] OTHER -> "z"]

\* s with its capitals made small (the matching of re.IGNORECASE).
Lower(s) ==
    LET piece(i) == IF Ch(s, i) \in Upper THEN LowerMap[Ch(s, i)] ELSE Ch(s, i)
    IN  ConcatRange(piece, 1, Len(s))

\* re.sub(open + r'.*?' + close, '', s, flags=re.DOTALL | re.IGNORECASE)
\* from position i on: each block from an opening to the nearest closing
\* that follows it is removed.  low is Lower(s).
RECURSIVE RemoveBlocksFrom(_, _, _, _, _)
RemoveBlocksFrom(s, low, open, close, i) ==
    LET a == FindFrom(low, open, i)
        b == IF a = 0 THEN 0 ELSE FindFrom(low, close, a + Len(open))
    IN  IF b = 0 THEN SubSeq(s, i, Len(s))
        ELSE SubSeq(s, i, a - 1)
             \o RemoveBlocksFrom(s, low, open, close, b + Len(close))

RemoveBlocks(s, open, close) == RemoveBlocksFrom(s, Lower(s), open, close, 1)

\* re.sub(r'<[^>]+>', '', s) from position i on: a '<', one character or
\* more that is not '>', and the '>' that follows.
RECURSIVE RemoveTagsFrom(_, _)
RemoveTagsFrom(s, i) ==
    LET a == FindFrom(s, "<", i)
        b == IF a = 0 THEN 0 ELSE FindFrom(s, ">", a + 1)
    IN  IF b = 0 THEN SubSeq(s, i, Len(s))
        ELSE IF b = a + 1
        THEN SubSeq(s, i, a) \o RemoveTagsFrom(s, a + 1)
        ELSE SubSeq(s, i, a - 1) \o RemoveTagsFrom(s, b + 1)

RemoveTags(s) == RemoveTagsFrom(s, 1)

\* text.split('\n') from position i on.
RECURSIVE SplitLinesFrom(_, _)
SplitLinesFrom(s, i) ==
    LET a == FindFrom(s, "\n", i)
    IN  IF a = 0 THEN <<SubSeq(s, i, Len(s))>>
        ELSE <<SubSeq(s, i, a - 1)>> \o SplitLinesFrom(s, a + 1)

\* '\n'.join(list)
JoinLines(list) ==
    LET piece(i) == IF i = 1 THEN list[i] ELSE "\n" \o list[i]
    IN  ConcatRange(piece, 1, Len(list))

\* len(line) > 50 and len(line) < 1000; content_lines[:20]; text[:3000]
MinLineLen == 50
MaxLineLen == 1000
MaxContentLines == 20
FallbackChars == 3000

ContentLine(line) == Len(line) > MinLineLen /\ Len(line) < MaxLineLen

\* What requests.get(url) comes to: it raised (no connection, timeout, a
\* status raise_for_status rejects) or it answered with a page.
GetRaised == [raised |-> TRUE, html |-> ""]
GetPage(html) == [raised |-> FALSE, html |-> html]

extract_url_content_basic(url, got) ==
    IF got.raised
    THEN AcquiredNone(FailMark \o "URL extraction failed: request error")
    ELSE LET bare == RemoveTags(RemoveBlocks(RemoveBlocks(got.html,
                         "<script", "</script>"), "<style", "</style>"))
             text == strip(CollapseWhitespace(bare))
             content_lines == SelectSeq(StripAll(SplitLinesFrom(text, 1)), ContentLine)
         IN  IF content_lines # <<>>
             THEN Acquired(JoinLines(SubSeq(content_lines, 1,
                               IF Len(content_lines) < MaxContentLines
                               THEN Len(content_lines) ELSE MaxContentLines)),
                           SourceMark \o url)
             ELSE IF text # ""
             THEN Acquired(SubSeq(text, 1, IF Len(text) < FallbackChars
                                           THEN Len(text) ELSE FallbackChars),
                           SourceMark \o url)
             ELSE AcquiredNone(SourceMark \o url)

\* What newspaper's Article comes to: the package is not installed, the
\* download or the parse raised, or article.text (which may be empty).
NoNewspaper == [available |-> FALSE, raised |-> FALSE, text |-> ""]
ArticleRaised == [available |-> TRUE, raised |-> TRUE, text |-> ""]
ArticleText(text) == [available |-> TRUE, raised |-> FALSE, text |-> text]

extract_url_content(url, article, got) ==
    IF article.available /\ ~article.raised /\ article.text # ""
    THEN Acquired(article.text, SourceMark \o url)
    ELSE extract_url_content_basic(url, got)

\* An uploaded file, by what reading it comes to:
\*   type     uploaded_file.type
\*   raised   PdfReader or uploaded_file.read() raised
\*   pages    of a PDF: what extract_text() returns for each page, as
\*            <<TRUE, text>>, or <<FALSE, "">> for None
\*   utf8     whether the bytes are valid UTF-8
\*   text     the bytes read as UTF-8 if valid, as Latin-1 otherwise
PdfFile(raised, pages) ==
    [type |-> "application/pdf", raised |-> raised, pages |-> pages,
     utf8 |-> FALSE, text |-> ""]
TextFile(raised, utf8, text) ==
    [type |-> "text/plain", raised |-> raised, pages |-> <<>>,
     utf8 |-> utf8, text |-> text]

\* content += page.extract_text() + "\n" for every page
PagesText(pages) ==
    LET piece(i) == pages[i][2] \o "\n"
    IN  ConcatRange(piece, 1, Len(pages))

process_uploaded_file(name, file, pypdf2) ==
    IF file.type = "application/pdf"
    THEN IF pypdf2
         THEN IF file.raised \/ \E i \in 1..Len(file.pages) : ~file.pages[i][1]
              THEN AcquiredNone(FailMark \o "Error reading file: read error")
              ELSE Acquired(PagesText(file.pages), SourceMark \o name)
         ELSE AcquiredNone(FailMark \o "PDF processing requires PyPDF2. "
                  \o "Please try a text file or paste the content directly.")
    ELSE IF file.utf8
         THEN IF file.raised
              THEN AcquiredNone(FailMark \o "Error reading file: read error")
              ELSE Acquired(file.text, SourceMark \o name)
         ELSE \* UnicodeDecodeError, then the bytes read again as Latin-1
              IF file.raised
              THEN AcquiredNone(FailMark \o "Could not decode file. "
                       \o "Please try a UTF-8 encoded text file.")
              ELSE Acquired(file.text, SourceMark \o name)

\* The pages, articles and files of the model.
Pages ==
    {"",
     "<html><head><script>var a = 1;</script></head><body></body></html>",
     "<p>Short page.</p>",
     "<html><body><h1>News</h1>\n<p>" \o Body(3) \o "</p></body></html>",
     "<STYLE>p {color: red}</STYLE><div>" \o Body(4) \o "</div>\n<p>"
         \o Body(7) \o "</p><p>" \o Body(7) \o "</p><p>" \o Body(7) \o "</p>"}

Urls == {"https://example.com/article"}

Articles == {NoNewspaper, ArticleRaised, ArticleText(""), ArticleText(Body(2))}

Fetches == {GetRaised} \cup {GetPage(h) : h \in Pages}

FileNames == {"notes.txt"}

Files ==
    {TextFile(FALSE, TRUE, Body(4)),
     TextFile(FALSE, TRUE, ""),
     TextFile(FALSE, TRUE, "  \n \n                                  "),
     TextFile(FALSE, FALSE, "Banks suspended all services~ for two days!"),
     TextFile(TRUE, TRUE, ""),
     TextFile(TRUE, FALSE, ""),
     PdfFile(FALSE, << <<TRUE, Body(1)>>, <<TRUE, Body(2)>> >>),
     PdfFile(FALSE, << <<TRUE, Body(1)>>, <<FALSE, "">> >>),
     PdfFile(FALSE, <<>>),
     PdfFile(TRUE, <<>>)}

\* The pasted texts and the drafts of the backend.
Texts == Contents \cup Drafts

\* clean_and_split_sentences and smart_paraphrase are pure: their values on
\* the texts of the model are computed once and looked up afterwards.
SegmentTable == [t \in Texts |-> clean_and_split_sentences(t)]

Sentences(t) ==
    IF t \in Texts THEN SegmentTable[t] ELSE clean_and_split_sentences(t)

TextSentences == UNION {{SegmentTable[t][k] : k \in 1..Len(SegmentTable[t])} : t \in Texts}

ParaphraseTable == [t \in TextSentences |-> smart_paraphrase(t)]

Paraphrased(t) ==
    IF t \in TextSentences THEN ParaphraseTable[t] ELSE smart_paraphrase(t)

---------------------------------------------------------------------------
(* create_basic_summary *)

\* Variant for testing the properties: the sample taken from the start of
\* the list instead of its middle third.
MiddleIndicesFromStart(n, n_sentences) ==
    [k \in 1..(IF n_sentences - 2 < n THEN n_sentences - 2 ELSE n) |-> k]

\* Positions (1-based) in middle_sentences = sentences[n // 3 : (2 * n) // 3]
\* that selected_middle takes, as positions of the sentence list.
MiddleIndices(n, n_sentences) ==
    LET middle_count == n_sentences - 2
        middle_start == n \div 3
        middle_end == (2 * n) \div 3
        middle_len == middle_end - middle_start
    IN  IF middle_len >= middle_count
        THEN LET step == middle_len \div middle_count
                 \* len(range(0, middle_len, step))
                 sampled == (middle_len + step - 1) \div step
                 taken == IF sampled < middle_count THEN sampled ELSE middle_count
             IN  [k \in 1..taken |-> middle_start + 1 + (k - 1) * step]
        ELSE [k \in 1..middle_len |-> middle_start + k]

\* Variant for testing the properties: the selection without the closing sentence.
SelectedIndicesWithoutLast(n, n_sentences) ==
    IF n <= n_sentences
    THEN [k \in 1..n |-> k]
    ELSE IF n_sentences >= 3
         THEN <<1>> \o MiddleIndices(n, n_sentences)
         ELSE [k \in 1..n_sentences |-> k]

\* Variant for testing the properties: a target below 3 takes the first
\* and the last sentence.
SelectedIndicesSpread(n, n_sentences) ==
    IF n <= n_sentences
    THEN [k \in 1..n |-> k]
    ELSE IF n_sentences >= 3
         THEN <<1>> \o MiddleIndices(n, n_sentences) \o <<n>>
         ELSE <<1, n>>

\* Positions (1-based) of the sentences create_basic_summary selects among n.
SelectedIndices(n, n_sentences) ==
    IF n <= n_sentences
    THEN [k \in 1..n |-> k]
    ELSE IF n_sentences >= 3
         THEN <<1>>
              \o (IF n_sentences > 2
                  THEN MiddleIndices(n, n_sentences) ELSE <<>>)
              \o (IF n > 1 THEN <<n>> ELSE <<>>)
         ELSE [k \in 1..n_sentences |-> k]

\* [smart_paraphrase(sentence) for sentence in selected_sentences]
ParaphraseAll(list) == [k \in 1..Len(list) |-> Paraphrased(list[k])]

\* result = ' '.join(finals); return result, sentence_count, word_count
Assemble(finals) ==
    LET result == Join(finals)
    IN  <<result, Len(finals), WordCount(result)>>

create_basic_summary(text, n_sentences, n_words) ==
    LET sentences == Sentences(text)
        picked == SelectedIndices(Len(sentences), n_sentences)
        selected_sentences == [k \in 1..Len(picked) |-> sentences[picked[k]]]
    IN  Assemble(ParaphraseAll(selected_sentences))

---------------------------------------------------------------------------
(* query_huggingface_api and create_ai_summary *)

\* What the POST to the inference API can come to.  A JSON body is
\* described by the parts the code looks at:
\*   type     "dict", "list", "null" or "number"
\*   error    whether "error" in body holds (the key of a dict, an item of a list)
\*   first    body[0] of a list: "none" (empty list), "null", "emptydict",
\*            "string" or "dict"
\*   summary  body[0].get('summary_text'): "absent", "empty", "number" or "text"
\*   text     the summary_text when summary = "text"
JsonBody(type, error, first, summ, text) ==
    [type |-> type, error |-> error, first |-> first, summary |-> summ,
     text |-> text]

NoBody == JsonBody("none", FALSE, "none", "absent", "")

\* requests.post raised (timeout, connection refused, ...).
PostRaised == [net |-> "exception", status |-> 0, body |-> NoBody]

HttpResponse(status, body) == [net |-> "response", status |-> status, body |-> body]

\* response.json() raised: the body of a 200 response is not JSON.
NotJson == JsonBody("notjson", FALSE, "none", "absent", "")

\* The value query_huggingface_api returns: the parsed body of a 200
\* response, else a dict with an "error" key.
query_huggingface_api(answer) ==
    IF answer.net = "exception" THEN JsonBody("dict", TRUE, "none", "absent", "")
    ELSE IF answer.status = 200
         THEN IF answer.body.type = "notjson"
              THEN JsonBody("dict", TRUE, "none", "absent", "")
              ELSE answer.body
         ELSE JsonBody("dict", TRUE, "none", "absent", "")

\* What every failure path of create_ai_summary returns: a text that starts
\* with "AI Error" and two zero counts.
AiError(detail) == <<"AI Error: " \o detail, 0, 0>>

\* Variant for testing the properties: the draft is never cut.
TruncateNever(sentences, n_sentences) == sentences

\* sentences[:target_sentences] if len(sentences) > target_sentences
\* else sentences
Truncate(sentences, n_sentences) ==
    IF Len(sentences) > n_sentences
    THEN SubSeq(sentences, 1, n_sentences)
    ELSE sentences

create_ai_summary(text, n_sentences, n_words, answer) ==
    LET result == query_huggingface_api(answer)
    IN  \* "error" in result raises TypeError on None and on a number
        IF result.type \in {"null", "number"}
        THEN AiError("argument is not iterable")
        ELSE IF result.error
        THEN \* result['error'] of a dict; of a list it raises TypeError
             AiError(IF result.type = "dict" THEN "backend error"
                     ELSE "list indices must be integers")
        ELSE IF \/ result.type # "list"
                \/ result.first \in {"none", "null", "emptydict"}
        THEN AiError("Invalid response from API")
        ELSE IF result.first = "string"
        THEN \* 'str' object has no attribute 'get'
             AiError("object has no attribute get")
        ELSE IF result.summary \in {"absent", "empty"}
        THEN AiError("No summary generated")
        ELSE IF result.summary = "number"
        THEN \* 'int' object has no attribute 'strip'
             AiError("object has no attribute strip")
        ELSE LET sentences == Sentences(result.text)
                 selected_sentences == Truncate(sentences, n_sentences)
             IN  Assemble(ParaphraseAll(selected_sentences))

---------------------------------------------------------------------------
(* create_smart_summary *)

\* Variant for testing the properties: the result of the backend path is returned whatever it is.
SummaryPathTrusting(from_ai, with_ai) == IF with_ai THEN "ai" ELSE "basic"

\* The path create_smart_summary takes: "ai" when the backend result is
\* returned, "basic" when create_basic_summary's is.
SummaryPath(from_ai, with_ai) ==
    IF with_ai /\ ~startswith(from_ai[1], "AI Error") THEN "ai" ELSE "basic"

create_smart_summary(text, n_sentences, n_words, priority, with_ai, answer) ==
    LET from_ai == create_ai_summary(text, n_sentences, n_words, answer)
    IN  IF SummaryPath(from_ai, with_ai) = "ai"
        THEN from_ai
        ELSE create_basic_summary(text, n_sentences, n_words)

---------------------------------------------------------------------------
(* The statistics of the output column *)

\* Variant for testing the properties: the quotient cut off after the first decimal.
TruncatedTenths(words_out, original_words) ==
    {(1000 * (original_words - words_out)) \div original_words}

\* round(x, 1) of x = (1 - words_out / original_words) * 100, in tenths of
\* a percent.  The quotient is rounded to the nearest tenth; where it lies
\* exactly between two tenths the binary floating point value decides, and
\* either neighbour can come out (29 of 80 gives 63.7, 3 of 16 gives 81.2).
RoundedTenths(words_out, original_words) ==
    LET scaled == 1000 * (original_words - words_out)
        floor == scaled \div original_words
        rest == scaled - floor * original_words
    IN  IF 2 * rest < original_words THEN {floor}
        ELSE IF 2 * rest > original_words THEN {floor + 1}
        ELSE {floor, floor + 1}

\* compression = round(...) if original_words > 0 else 0
CompressionValues(words_out, original_words) ==
    IF original_words > 0 THEN RoundedTenths(words_out, original_words) ELSE {0}

\* "AI-Powered (Hugging Face)" if use_ai and not summary.startswith("AI Error")
MethodUsed(ai, text) ==
    IF ai /\ ~startswith(text, "AI Error")
    THEN "AI-Powered (Hugging Face)" ELSE "Basic Text Processing"

Abs(x) == IF x < 0 THEN -x ELSE x

\* Largest distance from n_words that is still shown as a match.
WordMatchSlack == 10

Statistics(text, sentences, words, original, compression, ts, tw, ai) ==
    [original_words |-> original,
     compression |-> compression,
     sentence_match |-> (sentences = ts),
     word_match |-> (Abs(words - tw) <= WordMatchSlack),
     method_used |-> MethodUsed(ai, text)]

NoStats ==
    [original_words |-> 0, compression |-> 0, sentence_match |-> FALSE,
     word_match |-> FALSE, method_used |-> ""]

---------------------------------------------------------------------------
(* The controls of the sidebar *)

PRESETS ==
    [tweet |-> [sentences |-> 2, target_words |-> 45, max_words |-> 55],
     quick |-> [sentences |-> 5, target_words |-> 75, max_words |-> 90],
     executive |-> [sentences |-> 7, target_words |-> 110, max_words |-> 130],
     detailed |-> [sentences |-> 10, target_words |-> 170, max_words |-> 200]]

\* The ends of the "Target sentences" slider.
MinCustomSentences == 2
TopCustomSentences == 15

\* The ends and the step of the "Target words" slider.
MinCustomWords == 25
TopCustomWords == 300
CustomWordStep == 5

CustomSentences ==
    {n \in MinCustomSentences..TopCustomSentences : n <= MaxCustomSentences}

CustomWords ==
    {w \in MinCustomWords..TopCustomWords :
        \E k \in 0..MaxWordSteps : w = MinCustomWords + k * CustomWordStep}

\* priority.lower().split()[0] of "Sentences First" and "Words First"
Priorities == {"sentences", "words"}

\* The parameters the handler derives from the controls.
SimpleRequests ==
    {[mode |-> "Simple Mode", target_sentences |-> PRESETS[p].sentences,
      target_words |-> PRESETS[p].target_words, summary_priority |-> "sentences"] :
        p \in DOMAIN PRESETS}

AdvancedRequests ==
    {[mode |-> "Advanced Mode", target_sentences |-> cs, target_words |-> cw,
      summary_priority |-> pr] :
        cs \in CustomSentences, cw \in CustomWords, pr \in Priorities}

Requests == SimpleRequests \cup AdvancedRequests

---------------------------------------------------------------------------
(* The answers of the backend *)

NotAsked == [net |-> "none", status |-> 0, body |-> NoBody]

Responses ==
    {PostRaised}
    \cup {HttpResponse(st, NoBody) : st \in {503, 500}}
    \cup {HttpResponse(200, b) :
            b \in {NotJson,
                   JsonBody("dict", TRUE, "none", "absent", ""),
                   JsonBody("dict", FALSE, "none", "absent", ""),
                   JsonBody("null", FALSE, "none", "absent", ""),
                   JsonBody("number", FALSE, "none", "absent", ""),
                   JsonBody("list", FALSE, "none", "absent", ""),
                   JsonBody("list", FALSE, "null", "absent", ""),
                   JsonBody("list", FALSE, "emptydict", "absent", ""),
                   JsonBody("list", FALSE, "string", "absent", ""),
                   JsonBody("list", TRUE, "string", "absent", ""),
                   JsonBody("list", FALSE, "dict", "absent", ""),
                   JsonBody("list", FALSE, "dict", "empty", ""),
                   JsonBody("list", FALSE, "dict", "number", "")}}
    \cup {HttpResponse(200, JsonBody("list", FALSE, "dict", "text", d)) : d \in Drafts}

\* The checkbox and, when it is ticked, the answer of the backend.
Exchanges ==
    {[use_ai |-> FALSE, response |-> NotAsked]}
    \cup {[use_ai |-> TRUE, response |-> r] : r \in Responses}

---------------------------------------------------------------------------
(* One run of the page *)

\* Shortest content (stripped) that is summarized.
MinContentLen == 30

SegIdle == segIn = "" /\ segOut = <<>> /\ segPc = "off"

ParaIdle == paraIn = "" /\ paraOnce = "" /\ paraTwice = "" /\ paraPc = "off"

SelIdle == selText = "" /\ selTarget = 0 /\ selOut = <<>> /\ selPc = "off"

StatIdle ==
    statFinal = 0 /\ statOriginal = 0 /\ statCompression = 0 /\ statPc = "off"

\* Nothing asked for, nothing shown.
NoOutput ==
    /\ mode = "Simple Mode"
    /\ target_sentences = 0
    /\ target_words = 0
    /\ summary_priority = "sentences"
    /\ use_ai = TRUE
    /\ response = NotAsked
    /\ ai_result = <<>>
    /\ path = "none"
    /\ summary = ""
    /\ final_sentences = 0
    /\ final_words = 0
    /\ display = "nothing"
    /\ stats = NoStats

Init ==
    /\ pc = "input"
    /\ content = ""
    /\ content_none = FALSE
    /\ input_shown = "nothing"
    /\ source_info = ""
    /\ NoOutput
    /\ SegIdle /\ ParaIdle /\ StatIdle /\ SelIdle

\* The "Paste Text" input: content and source_info are set when the text
\* area holds more than whitespace.
PasteText ==
    /\ pc = "input"
    /\ \E text_input \in TextInputs :
          IF strip(text_input) # ""
          THEN content' = text_input /\ source_info' = "Source: Direct text input"
          ELSE content' = "" /\ source_info' = ""
    /\ content_none' = FALSE
    /\ input_shown' = "nothing"
    /\ UNCHANGED <<pc, mode, target_sentences, target_words, summary_priority,
                   use_ai, response, ai_result, path, summary, final_sentences,
                   final_words, display, stats>>
    /\ UNCHANGED <<segVars, paraVars, statVars, selVars>>

\* str contains: "(x) " in source_info
Contains(s, part) == FindFrom(s, part, 1) # 0

\* The content, the label and the message of the input column after an
\* acquisition returned got.
Receive(got) ==
    /\ content' = got.text
    /\ content_none' = got.none
    /\ source_info' = got.label
    /\ input_shown' = IF got.none \/ Contains(got.label, FailMark)
                      THEN "error" ELSE "success"

\* The "URL" input: the content is extracted when the field holds more
\* than whitespace.
EnterUrl ==
    /\ pc = "input"
    /\ \E url_input \in Urls \cup {" "} :
          IF strip(url_input) # ""
          THEN \E article \in Articles, got \in Fetches :
                  Receive(extract_url_content(url_input, article, got))
          ELSE /\ content' = "" /\ content_none' = FALSE
               /\ source_info' = "" /\ input_shown' = "nothing"
    /\ UNCHANGED <<pc, mode, target_sentences, target_words, summary_priority,
                   use_ai, response, ai_result, path, summary, final_sentences,
                   final_words, display, stats>>
    /\ UNCHANGED <<segVars, paraVars, statVars, selVars>>

\* The "Upload File" input with a file chosen: only a failure is shown.
UploadFile ==
    /\ pc = "input"
    /\ \E name \in FileNames, file \in Files, pypdf2 \in BOOLEAN :
       \E got \in {process_uploaded_file(name, file, pypdf2)} :
          /\ content' = got.text
          /\ content_none' = got.none
          /\ source_info' = got.label
          /\ input_shown' = IF got.none THEN "error" ELSE "nothing"
    /\ UNCHANGED <<pc, mode, target_sentences, target_words, summary_priority,
                   use_ai, response, ai_result, path, summary, final_sentences,
                   final_words, display, stats>>
    /\ UNCHANGED <<segVars, paraVars, statVars, selVars>>

\* Variant for testing the properties: the length of the content as it is.
TooShortUnstripped(text) == Len(text) < MinContentLen

\* len(content.strip()) < 30
TooShort(text) == Len(strip(text)) < MinContentLen

\* The run after "Create Summary" is pressed with no content.
GenerateNothing ==
    /\ content = ""
    /\ display' = "warning"
    /\ UNCHANGED <<mode, target_sentences, target_words, summary_priority,
                   use_ai, response, ai_result, path, summary, final_sentences,
                   final_words, stats>>

\* ... with content of fewer than 30 characters.
GenerateTooShort ==
    /\ content # ""
    /\ TooShort(content)
    /\ display' = "too_short"
    /\ UNCHANGED <<mode, target_sentences, target_words, summary_priority,
                   use_ai, response, ai_result, path, summary, final_sentences,
                   final_words, stats>>

\* ... with content that is summarized.
GenerateSummary ==
    /\ content # ""
    /\ ~TooShort(content)
    /\ \E req \in Requests, ex \in Exchanges :
       \E ai \in {IF ex.use_ai
                  THEN create_ai_summary(content, req.target_sentences,
                                         req.target_words, ex.response)
                  ELSE <<>>} :
       \E res \in {create_smart_summary(content, req.target_sentences,
                                        req.target_words, req.summary_priority,
                                        ex.use_ai, ex.response)} :
       \E original_words \in {WordCount(content)} :
          /\ mode' = req.mode
          /\ target_sentences' = req.target_sentences
          /\ target_words' = req.target_words
          /\ summary_priority' = req.summary_priority
          /\ use_ai' = ex.use_ai
          /\ response' = ex.response
          /\ ai_result' = ai
          /\ path' = SummaryPath(ai, ex.use_ai)
          /\ summary' = res[1]
          /\ final_sentences' = res[2]
          /\ final_words' = res[3]
          /\ IF startswith(res[1], "Error") \/ startswith(res[1], "AI Error")
             THEN display' = "error" /\ stats' = NoStats
             ELSE /\ display' = "summary"
                  /\ \E compression \in CompressionValues(res[3], original_words) :
                        stats' = Statistics(res[1], res[2], res[3], original_words,
                                            compression, req.target_sentences,
                                            req.target_words, ex.use_ai)

\* The run of the page that follows a press of "Create Summary".
Generate ==
    /\ pc = "input"
    /\ pc' = "done"
    /\ (GenerateNothing \/ GenerateTooShort \/ GenerateSummary)
    /\ UNCHANGED <<content, content_none, input_shown, source_info>>
    /\ UNCHANGED <<segVars, paraVars, statVars, selVars>>

\* Any later run of the page without a press of the button shows no output.
Rerun ==
    /\ pc = "done"
    /\ pc' = "input"
    /\ mode' = "Simple Mode"
    /\ target_sentences' = 0
    /\ target_words' = 0
    /\ summary_priority' = "sentences"
    /\ use_ai' = TRUE
    /\ response' = NotAsked
    /\ ai_result' = <<>>
    /\ path' = "none"
    /\ summary' = ""
    /\ final_sentences' = 0
    /\ final_words' = 0
    /\ display' = "nothing"
    /\ stats' = NoStats
    /\ UNCHANGED <<content, content_none, input_shown, source_info>>
    /\ UNCHANGED <<segVars, paraVars, statVars, selVars>>

Next == PasteText \/ EnterUrl \/ UploadFile \/ Generate \/ Rerun

Spec == Init /\ [][Next]_vars

---------------------------------------------------------------------------
(* The statistics lines on their own *)

RunIdle ==
    /\ pc = "off"
    /\ content = ""
    /\ content_none = FALSE
    /\ input_shown = "nothing"
    /\ source_info = ""
    /\ NoOutput

InitStats ==
    /\ statFinal \in 0..MaxWords
    /\ statOriginal \in 0..MaxWords
    /\ statCompression = 0
    /\ statPc = "in"
    /\ RunIdle /\ SegIdle /\ ParaIdle /\ SelIdle

ComputeStatistics ==
    /\ statPc = "in"
    /\ statCompression' \in CompressionValues(statFinal, statOriginal)
    /\ statPc' = "out"
    /\ UNCHANGED <<statFinal, statOriginal, runVars, segVars, paraVars, selVars>>

NextStats == ComputeStatistics

SpecStats == InitStats /\ [][NextStats]_vars

---------------------------------------------------------------------------
(* The segmenter on its own: inputs put together from a few pieces.        *)

SegPieces == {"Hi", "Sentences", "lower", ".", "!", "?", " "}

RECURSIVE PieceTexts(_)
PieceTexts(n) ==
    IF n = 0 THEN {""}
    ELSE LET shorter == PieceTexts(n - 1)
         IN  shorter \cup {t \o p : t \in shorter, p \in SegPieces}

SegExamples ==
    {"Hi. This is a proper sentence that is long enough.",
     "First sentence here.  Second one follows!\nThird one asks why? fourth stays attached",
     "  An open ended fragment without a mark  ",
     "Hi. Ten chars! This one trails off.. The last sentence is kept"}

SegTexts == PieceTexts(MaxPieces) \cup SegExamples

InitSeg ==
    /\ segIn \in SegTexts
    /\ segOut = <<>>
    /\ segPc = "in"
    /\ RunIdle /\ ParaIdle /\ StatIdle /\ SelIdle

Segment ==
    /\ segPc = "in"
    /\ segOut' = clean_and_split_sentences(segIn)
    /\ segPc' = "out"
    /\ UNCHANGED <<segIn, runVars, paraVars, statVars, selVars>>

NextSeg == Segment

SpecSeg == InitSeg /\ [][NextSeg]_vars

---------------------------------------------------------------------------
(* The paraphraser on its own, applied once and then again to its result.  *)

ParaPieces ==
    {"server", "restart", "suspended", "come to a standstill",
     "portedly", "deliverie", "conducted", " the "}

RECURSIVE PhraseTexts(_)
PhraseTexts(n) ==
    IF n = 0 THEN {""}
    ELSE LET shorter == PhraseTexts(n - 1)
         IN  shorter \cup {t \o p : t \in shorter, p \in ParaPieces}

ParaExamples ==
    {"Officials reportedly obtained the server logs.",
     "Services have come to a standstill and were suspended.",
     "David smashed the fastest century against the West Indies."}

ParaTexts == PhraseTexts(MaxPhrases) \cup ParaExamples

InitPara ==
    /\ paraIn \in ParaTexts
    /\ paraOnce = ""
    /\ paraTwice = ""
    /\ paraPc = "in"
    /\ RunIdle /\ SegIdle /\ StatIdle /\ SelIdle

Paraphrase ==
    /\ paraPc = "in"
    /\ paraOnce' = smart_paraphrase(paraIn)
    /\ paraPc' = "once"
    /\ UNCHANGED <<paraIn, paraTwice, runVars, segVars, statVars, selVars>>

ParaphraseAgain ==
    /\ paraPc = "once"
    /\ paraTwice' = smart_paraphrase(paraOnce)
    /\ paraPc' = "twice"
    /\ UNCHANGED <<paraIn, paraOnce, runVars, segVars, statVars, selVars>>

NextPara == Paraphrase \/ ParaphraseAgain

SpecPara == InitPara /\ [][NextPara]_vars

---------------------------------------------------------------------------
(* create_basic_summary on its own: texts of sentences that all differ.    *)

Names ==
    <<"Alpha", "Bravo", "Charlie", "Delta", "Echo", "Foxtrot", "Golf",
      "Hotel", "India", "Juliett", "Kilo", "Lima", "Mike", "November">>

\* The k-th sentence of a listing; every second one holds triggers of the
\* paraphraser.
Listed(k) ==
    Names[k] \o (IF k % 2 = 1 THEN " reportedly obtained the server logs."
                 ELSE " is the next point of the list!")

\* The first n sentences of the listing as one text.
Listing(n) == Join([k \in 1..n |-> Listed(k)])

ListedCounts == {n \in 0..Len(Names) : n <= MaxListed}

InitSelect ==
    /\ selText \in {Listing(n) : n \in ListedCounts}
    /\ selTarget \in 1..MaxTarget
    /\ selOut = <<>>
    /\ selPc = "in"
    /\ RunIdle /\ SegIdle /\ ParaIdle /\ StatIdle

SelectBasic ==
    /\ selPc = "in"
    /\ selOut' = create_basic_summary(selText, selTarget, 0)
    /\ selPc' = "out"
    /\ UNCHANGED <<selText, selTarget, runVars, segVars, paraVars, statVars>>

NextSelect == SelectBasic

SpecSelect == InitSelect /\ [][NextSelect]_vars

---------------------------------------------------------------------------
(* Properties of a run of the page (specification Spec) *)

\* A run that reached create_smart_summary has finished.
Summarized == pc = "done" /\ path # "none"

\* The run took the three-zone selection of create_basic_summary:
\* 3 <= target_sentences < n, n the sentences of the content.
ThreeZone ==
    /\ Summarized
    /\ path = "basic"
    /\ target_sentences >= 3
    /\ target_sentences < Len(Sentences(content))

\* C1: where create_basic_summary selects from n sentences with
\* 3 <= target_sentences < n, its output holds the smoothed first sentence
\* and the smoothed last sentence of the text, the first before the last:
\* the output begins with the one, ends with the other, and is long enough
\* for the two not to share a character.
FirstAndLastKept ==
    ThreeZone =>
        LET sentences == Sentences(content)
            first == smart_paraphrase(sentences[1])
            last == smart_paraphrase(sentences[Len(sentences)])
        IN  /\ startswith(summary, first \o " ")
            /\ endswith(summary, " " \o last)
            /\ Len(summary) >= Len(first) + 1 + Len(last)

\* C1 witness: four of seven sentences were asked for and selected.
FirstAndLastKeptSeen ==
    /\ ThreeZone
    /\ Len(Sentences(content)) = 7
    /\ target_sentences = 4
    /\ final_sentences = 4

\* C2: where create_basic_summary selects from n sentences with
\* 3 <= target_sentences < n, it returns exactly target_sentences sentences
\* (the first, the last and target_sentences - 2 from the middle range).
ExactlyTargetSentences ==
    ThreeZone => final_sentences = target_sentences

\* The answers that are a failure of the backend: the request raised or
\* timed out, the status is not 200, the body is not JSON, is an error
\* answer, is not a non-empty list of dicts, or has no summary_text that is
\* a non-empty text.
BackendFailed(answer) ==
    \/ answer.net = "exception"
    \/ answer.status # 200
    \/ answer.body.type # "list"
    \/ answer.body.error
    \/ answer.body.first # "dict"
    \/ answer.body.summary # "text"

\* C3: a run with use_ai ticked whose backend call failed ends with exactly
\* what create_basic_summary returns for the same text and targets.
FailureFallsBackToBasic ==
    (Summarized /\ use_ai /\ BackendFailed(response)) =>
        /\ path = "basic"
        /\ <<summary, final_sentences, final_words>>
               = create_basic_summary(content, target_sentences, target_words)

\* C3 witness: the backend answered 503 and the three sentences of the
\* basic summary are shown.
FailureFallsBackToBasicSeen ==
    /\ Summarized
    /\ use_ai
    /\ response = HttpResponse(503, NoBody)
    /\ display = "summary"
    /\ final_sentences = 3

\* The text whose sentences make the summary of the run: the draft of the
\* backend on the backend path, the content otherwise.
SummarizedText == IF path = "ai" THEN response.body.text ELSE content

\* C4: a run whose summarized text segments into no sentence ends in a
\* reported failure; an empty summary is never shown as a success.
ZeroSentencesReported ==
    /\ (Summarized /\ Len(Sentences(SummarizedText)) = 0) => display = "error"
    /\ (Summarized /\ summary = "") => display # "summary"

\* C7: a run with words-first priority returns no more than
\* target_words + 15 words (the looser of the two budgets); stated for the
\* runs whose summary create_basic_summary made.
WordsFirstWithinBudget ==
    (Summarized /\ path = "basic" /\ summary_priority = "words") =>
        final_words <= target_words + 15

\* C8: on the backend path with a well-formed answer, a draft of n
\* sentences gives target_sentences sentences when n > target_sentences and
\* n sentences otherwise.
DraftCutToTarget ==
    (Summarized /\ use_ai /\ ~BackendFailed(response)) =>
        LET n == Len(clean_and_split_sentences(response.body.text))
        IN  ai_result[2] = IF n > target_sentences THEN target_sentences ELSE n

\* C8 witness: a draft of six sentences was cut to the five asked for.
DraftCutToTargetSeen ==
    /\ Summarized
    /\ path = "ai"
    /\ Len(Sentences(response.body.text)) = 6
    /\ target_sentences = 5
    /\ final_sentences = 5

\* C11: a finished run whose content, stripped of surrounding whitespace,
\* has fewer than 30 characters shows the too-short error; neither
\* create_smart_summary nor the backend was called, and there is no summary
\* and there are no statistics.
TooShortReported ==
    (pc = "done" /\ content # "" /\ Len(strip(content)) < MinContentLen) =>
        /\ display = "too_short"
        /\ path = "none"
        /\ response = NotAsked
        /\ ai_result = <<>>
        /\ summary = "" /\ final_sentences = 0 /\ final_words = 0
        /\ stats = NoStats

\* C11 witness: a content of 39 characters, 21 of them without the
\* surrounding blanks, was refused.
TooShortReportedSeen ==
    /\ pc = "done"
    /\ content = "   Padded but too short.               "
    /\ display = "too_short"

\* C12: where an acquisition returned None as text, its label is a failure
\* description and is shown as an error, and a run that follows never
\* calls create_smart_summary.
AcquisitionFailureDescribed ==
    content_none =>
        /\ startswith(source_info, FailMark)
        /\ input_shown = "error"
        /\ pc = "done" => (path = "none" /\ display = "warning")

\* C13: a finished run over a content of at least 30 characters that
\* segments into at least one sentence shows its summary as a success,
\* whatever the backend did.
UsableTextShownAsSuccess ==
    (Summarized /\ Len(clean_and_split_sentences(content)) >= 1) =>
        display = "summary"

\* C16: the method shown with a summary is "AI-Powered (Hugging Face)" when
\* the draft of the backend was returned and "Basic Text Processing" when
\* create_basic_summary made the summary.
MethodMatchesPath ==
    (Summarized /\ display = "summary") =>
        stats.method_used = IF path = "ai" THEN "AI-Powered (Hugging Face)"
                            ELSE "Basic Text Processing"

---------------------------------------------------------------------------
(* Properties of the segmenter (specification SpecSeg) *)

\* The fragments of the input that are long enough and do not end in a
\* double period, in the order of the text.
Qualifying(text) ==
    LET raw == RawSentences(text)
        qualifies(i) == Len(raw[i]) >= 10 /\ ~endswith(raw[i], "..")
        kept == SelectSeq(Positions(1, Len(raw)), qualifies)
    IN  [k \in 1..Len(kept) |-> raw[kept[k]]]

LastCh(s) == Ch(s, Len(s))

\* C5: every sentence clean_and_split_sentences returns ends in '.', '!'
\* or '?'; a retained fragment that ends in such a mark is returned as it
\* is, any other with one period appended; no sentence ends in "..".
SentencesEndInMark ==
    segPc = "out" =>
        LET kept == Qualifying(segIn)
        IN  /\ Len(segOut) = Len(kept)
            /\ \A k \in 1..Len(segOut) :
                  /\ LastCh(segOut[k]) \in Terminals
                  /\ ~endswith(segOut[k], "..")
                  /\ segOut[k] = IF LastCh(kept[k]) \in Terminals
                                 THEN kept[k] ELSE kept[k] \o "."

\* C5 witness: of two retained fragments one had its mark and the other
\* got a period.
SentencesEndInMarkSeen ==
    /\ segPc = "out"
    /\ segIn = "Sentences! Sentenceslower"
    /\ segOut = <<"Sentences!", "Sentenceslower.">>

\* C6: clean_and_split_sentences returns, in the order of the text, exactly
\* the fragments of at least 10 characters that do not end in "..", each
\* with at most a period appended; the text "Hi. This is a proper sentence
\* that is long enough." gives exactly one sentence.
ExactlyQualifyingKept ==
    segPc = "out" =>
        LET kept == Qualifying(segIn)
        IN  /\ Len(segOut) = Len(kept)
            /\ \A k \in 1..Len(segOut) :
                  segOut[k] \in {kept[k], kept[k] \o "."}
            /\ segIn = "Hi. This is a proper sentence that is long enough."
                  => segOut = <<"This is a proper sentence that is long enough.">>

\* C6 witness: the fragments of 10 characters and more are kept in their
\* order; the one of 3 and the one ending in a double period are dropped.
ExactlyQualifyingKeptSeen ==
    /\ segPc = "out"
    /\ segIn = "Hi. Ten chars! This one trails off.. The last sentence is kept"
    /\ segOut = <<"Ten chars!", "The last sentence is kept.">>

---------------------------------------------------------------------------
(* Properties of the paraphraser (specification SpecPara) *)

\* The entries of the table whose trigger stands at position j of s.
TriggersAt(s, j) ==
    {k \in 1..Len(replacements) :
        /\ j + Len(replacements[k][1]) - 1 <= Len(s)
        /\ SubSeq(s, j, j + Len(replacements[k][1]) - 1) = replacements[k][1]}

\* The occurrences of triggers in s: entry, first and last position.
Occurrences(s) ==
    UNION {{<<k, j, j + Len(replacements[k][1]) - 1>> : k \in TriggersAt(s, j)} :
              j \in 1..Len(s)}

HasTrigger(s) == \E j \in 1..Len(s) : TriggersAt(s, j) # {}

\* No two occurrences of triggers in s share a character.
NoOverlap(s) ==
    \A a, b \in Occurrences(s) : a = b \/ a[3] < b[2] \/ b[3] < a[2]

\* s with every occurrence of a trigger replaced at once (for s without
\* overlapping occurrences).
Substituted(s) ==
    LET occs == Occurrences(s)
        piece(j) ==
            IF \E o \in occs : o[2] = j
            THEN LET stands(e) == e \in TriggersAt(s, j)
                     here == SelectSeq(Positions(1, Len(replacements)), stands)
                 IN  replacements[here[1]][2]
            ELSE IF \E o \in occs : o[2] < j /\ j <= o[3] THEN "" ELSE Ch(s, j)
    IN  ConcatRange(piece, 1, Len(s))

---------------------------------------------------------------------------
(* Properties of the statistics (specification SpecStats) *)

\* C10: the compression shown is (1 - final_words / original_words) * 100
\* rounded to one decimal (no further than half a tenth from it) when
\* original_words > 0, so 75.0 for 25 of 100 words, and 0 when
\* original_words is 0.  Compression is held in tenths of a percent.
CompressionIsRounded ==
    statPc = "out" =>
        /\ statOriginal > 0 =>
              2 * Abs(statCompression * statOriginal
                        - 1000 * (statOriginal - statFinal)) <= statOriginal
        /\ (statOriginal = 100 /\ statFinal = 25) => statCompression = 750
        /\ statOriginal = 0 => statCompression = 0

\* C10 witness: 25 of 100 words gave 75.0.
CompressionIsRoundedSeen ==
    /\ statPc = "out"
    /\ statOriginal = 100
    /\ statFinal = 25
    /\ statCompression = 750

---------------------------------------------------------------------------
(* Properties of the basic selector (specification SpecSelect) *)

\* The positions of the sentences of text whose smoothed form is sentence.
PositionsOf(text, sentence) ==
    LET sentences == clean_and_split_sentences(text)
    IN  {i \in 1..Len(sentences) : smart_paraphrase(sentences[i]) = sentence}

\* C14: the sentences of create_basic_summary's output stand for strictly
\* increasing positions of the segmented sentence list: each is the
\* smoothed form of one sentence of the text, later ones of later
\* sentences, so none is selected twice.
SelectionInDocumentOrder ==
    selPc = "out" =>
        LET out == clean_and_split_sentences(selOut[1])
        IN  /\ Len(out) = selOut[2]
            /\ \A k \in 1..Len(out) :
                  Cardinality(PositionsOf(selText, out[k])) = 1
            /\ \A k \in 1..(Len(out) - 1) :
                  \A i \in PositionsOf(selText, out[k]) :
                     \A j \in PositionsOf(selText, out[k + 1]) : i < j

\* C14 witness: six of twelve sentences were selected, the first, four of
\* the middle third and the last.
SelectionInDocumentOrderSeen ==
    /\ selPc = "out"
    /\ selText = Listing(12)
    /\ selTarget = 6
    /\ selOut[2] = 6
    /\ PositionsOf(selText, clean_and_split_sentences(selOut[1])[2]) = {5}

\* C15: where the text has no more sentences than target_sentences, or
\* target_sentences is below 3, create_basic_summary returns the smoothed
\* first min(n, target_sentences) sentences in order, joined by single
\* spaces, their number, and the number of whitespace-separated tokens of
\* the returned text.
PrefixOutsideThreeZone ==
    selPc = "out" =>
        LET sentences == clean_and_split_sentences(selText)
            n == Len(sentences)
            m == IF n < selTarget THEN n ELSE selTarget
            tokens(t) == Cardinality({i \in 1..Len(t) :
                            /\ Ch(t, i) \notin Whitespace
                            /\ i = 1 \/ Ch(t, i - 1) \in Whitespace})
        IN  (n <= selTarget \/ selTarget < 3) =>
               /\ selOut[1] = Join([k \in 1..m |-> smart_paraphrase(sentences[k])])
               /\ selOut[2] = m
               /\ selOut[3] = tokens(selOut[1])

\* C15 witness: the first two of five sentences were returned, the first
\* of them smoothed.
PrefixOutsideThreeZoneSeen ==
    /\ selPc = "out"
    /\ selText = Listing(5)
    /\ selTarget = 2
    /\ selOut = <<"Alpha allegedly secured the system logs. "
                    \o "Bravo is the next point of the list!", 2, 14>>

=============================================================================
